---------------------------- MODULE Spec2Model ----------------------------
(***************************************************************************)
(* Model of the Cabbage query pipeline: process_query (main_processor.py), *)
(* search_urls (search_module.py) and scrape_website (scraper.py).         *)
(*                                                                         *)
(* Python strings are sequences of one-character strings, so that strip,   *)
(* join and truthiness are computed and not assumed.  A Python value is a  *)
(* record [t |-> its type, v |-> its characters].  A dict is the sequence  *)
(* of its items in insertion order.                                        *)
(***************************************************************************)
EXTENDS Integers, Sequences, FiniteSets, TLC

\* ------------------------------------------------------------------ bounds
\* Largest result count a caller passes as num_results.
MaxUrls == 3
\* Largest sentence count a caller passes as summary_sentences.
MaxSentences == 2
\* Most sentences in a text given to summarize_text on its own.
MaxCorpusSentences == 3
\* Queries in flight on one event loop.
MaxTasks == 2

\* ------------------------------------------------------------ python values
None == [t |-> "None", v |-> <<>>]
Str(s) == [t |-> "str", v |-> s]
EmptyDict == [t |-> "dict", v |-> <<>>]
Number == [t |-> "int", v |-> <<"7">>]
\* A local name that no assignment has bound yet.
Unbound == [t |-> "unbound", v |-> <<>>]

\* bool(x) for the values above: None, "" and {} are false.
Truthy(x) == x.t \in {"str", "int"} /\ x.v # <<>>

IsSpace(c) == c \in {" ", "\n"}

RECURSIVE lstrip(_)
lstrip(s) == IF s = <<>> THEN s
             ELSE IF IsSpace(Head(s)) THEN lstrip(Tail(s)) ELSE s

RECURSIVE rstrip(_)
rstrip(s) == IF s = <<>> THEN s
             ELSE IF IsSpace(s[Len(s)]) THEN rstrip(SubSeq(s, 1, Len(s) - 1)) ELSE s

\* str.strip()
strip(s) == rstrip(lstrip(s))

\* sep.join(parts)
RECURSIVE Join(_, _)
Join(parts, sep) == IF parts = <<>> THEN <<>>
                    ELSE IF Len(parts) = 1 THEN parts[1]
                    ELSE parts[1] \o sep \o Join(Tail(parts), sep)

\* Mutant: an existing key keeps its first value.
DictSet_KeepsFirst(d, k, v) ==
    IF \E n \in DOMAIN d : d[n].k = k
    THEN d
    ELSE Append(d, [k |-> k, v |-> v])

\* d[k] = v on an insertion-ordered dict: an existing key keeps its place.
DictSet(d, k, v) ==
    IF \E n \in DOMAIN d : d[n].k = k
    THEN [n \in DOMAIN d |-> IF d[n].k = k THEN [k |-> k, v |-> v] ELSE d[n]]
    ELSE Append(d, [k |-> k, v |-> v])

\* list(d.values())
DictValues(d) == [n \in DOMAIN d |-> d[n].v]

RECURSIVE SelectSeq2(_, _)
SelectSeq2(s, keep) == IF s = <<>> THEN <<>>
                       ELSE IF keep[1] THEN <<Head(s)>> \o SelectSeq2(Tail(s), Tail(keep))
                       ELSE SelectSeq2(Tail(s), Tail(keep))

SeqsUpTo(S, n) == UNION {[1..m -> S] : m \in 0..n}

\* ------------------------------------------------------------ collaborators
Queries == {"q1"}
URLS == {"u1", "u2"}
NoHref == "no-href"

\* Markup a browser can hand back as page_source.
Htmls == {Str(<<>>), Str(<<"p">>), Str(<<"q">>)}

\* Markup the browser can hand back for a URL: nothing, or the page that
\* is at this URL while the query runs.
PageSources(url) ==
    {h \in Htmls : h = Str(<<>>) \/ h = (IF url = "u1" THEN Str(<<"p">>) ELSE Str(<<"q">>))}

\* Texts the extractor can hand back.
TextA == <<"a", ".">>
TextB == <<"b", ".">>
Texts == {<<>>, <<" ">>, TextA, TextB}

\* Values of MISTRAL_API_KEY in the environment at import.
Keys == {None, Str(<<>>), Str(<<"k">>)}


\* ------------------------------------------------------------------- state
VARIABLES
    mistral_api_key,   \* module global, read from the environment at import
    pc,                \* where process_query stands
    query, num_results, summary_sentences,   \* its parameters
    mistral_model_name, mistral_max_tokens,  \* its parameters (refinement)
    urls,              \* the search result
    i,                 \* index (from 1) of the URL the fetch loop is at
    scraped_data,      \* dict url -> markup or None
    spc,               \* where scrape_website stands ("out": not running)
    driver,            \* scrape_website's local: "None" or "live"
    html_content,      \* scrape_website's local
    exit_path,         \* how the try block of scrape_website was left
    liveDrivers,       \* browsers started and not yet quit
    j,                 \* index (from 1) of the item the extraction loop is at
    extracted_texts,   \* dict url -> text or None
    combined_text, first_summary, final_summary,
    post_count,        \* refinement requests issued during this query
    request,           \* what the last session.post was called with
    response,          \* what came back from the refinement service
    result,            \* the value process_query returned
    raised_at,         \* where an exception left process_query ("" if none)
    fetch_log,         \* one entry per scrape_website call that returned
    extract_log,       \* one entry per trafilatura.extract call that returned
    provider,          \* what the search provider did during this query
    search_calls,      \* calls of search_urls during this query
    fetch_calls,       \* calls of scrape_website during this query
    summarize_calls,   \* calls of summarize_text during this query
    reply,             \* what perform_search answered for this query
    sumCall,           \* a caller of summarize_text on its own (SumSpec)
    cfg,               \* the configuration file and its loading (CfgSpec)
    loop,              \* the event loop and the queries on it (LoopSpec)
    environ            \* os.environ["MISTRAL_API_KEY"], None when unset

vars == <<mistral_api_key, pc, query, num_results, summary_sentences,
          mistral_model_name, mistral_max_tokens, urls, i,
          scraped_data, spc, driver, html_content, exit_path, liveDrivers, j,
          extracted_texts, combined_text, first_summary, final_summary,
          post_count, request, response, result, raised_at, fetch_log,
          extract_log, provider, search_calls, fetch_calls, summarize_calls,
          reply, sumCall, cfg, loop, environ>>

params == <<query, num_results, summary_sentences, mistral_model_name,
            mistral_max_tokens>>
scraperVars == <<spc, driver, html_content, exit_path>>
extractVars == <<j, extracted_texts>>
summaryVars == <<combined_text, first_summary, final_summary>>
refineVars == <<post_count, request, response>>
logs == <<fetch_log, extract_log>>
calls == <<provider, search_calls, fetch_calls, summarize_calls>>
\* What process_query and its callees leave alone: the module global, the
\* caller's reply, and the callers of summarize_text and load_config.
outer == <<mistral_api_key, reply, sumCall, cfg, loop, environ>>

\* The provider has not been asked (yet).
NotAsked == [raised |-> FALSE, results |-> <<>>]

\* No body read (yet) from the refinement service.
NoBody == [kind |-> "none", choices |-> "absent", first |-> "none",
           message |-> "none", content |-> None]

\* main_processor.py 52.
mistral_api_url == "https://api.mistral.ai/v1/chat/completions"

\* No request sent (yet).
NoRequest ==
    [url |-> "",
     headers |-> [Authorization |-> <<>>, ContentType |-> "", Accept |-> ""],
     json |-> [model |-> "", messages |-> <<>>, max_tokens |-> 0]]

\* perform_search has not answered (yet).
NoReply == [status |-> "none", query |-> "", summary |-> Unbound, message |-> ""]

\* Values of a configuration: a JSON number, string or null, or no value.
JInt(n) == [t |-> "int", n |-> n, s |-> ""]
JStr(x) == [t |-> "str", n |-> 0, s |-> x]
JNull == [t |-> "None", n |-> 0, s |-> ""]
Missing == [t |-> "missing", n |-> 0, s |-> ""]

ConfigKeys == {"search_results_count", "summary_sentences_count",
               "mistral_model", "mistral_max_tokens"}

\* A dict over the configuration keys in which no key is set.
NoConfig == [k \in ConfigKeys |-> Missing]

\* A configuration file: absent, unreadable, not JSON, or a JSON document
\* of some kind; object holds the keys of a JSON object.
File(state, kind, object) == [state |-> state, kind |-> kind, object |-> object]
NoFile == File("missing", "none", NoConfig)

\* main_processor.py 43-48: the dict as the module builds it at import.
BuiltDefaults ==
    [search_results_count |-> JInt(5),
     summary_sentences_count |-> JInt(50),
     mistral_model |-> JStr("mistral-small-latest"),
     mistral_max_tokens |-> JInt(150)]

\* No call of load_config under way, none of summarize_text.  defaults is
\* what the dict DEFAULT_CONFIG holds; shared says that the object in config
\* is that very dict and not a copy.
CfgIdle == [pc |-> "idle", file |-> NoFile, config |-> NoConfig,
            settings |-> NoConfig, defaults |-> BuiltDefaults,
            shared |-> FALSE]
NoLsa == [kind |-> "none", rank |-> <<>>]
NoAgain == [lsa |-> NoLsa, summary |-> Unbound]
StIdle == [pc |-> "idle", text |-> None, sentences_count |-> 1,
           lsa |-> NoLsa, summary |-> Unbound, again |-> NoAgain]

\* The queries the event loop can hold.
TaskIds == 1..MaxTasks

\* A query the service has not begun to handle: where it stands, how many
\* search-result entries are left to fetch, whether it holds a live browser.
NewTask == [pc |-> "new", left |-> 0, browser |-> FALSE]

\* The event loop before any request: no task runs (running = 0).
LoopIdle == [running |-> 0, tasks |-> [t \in TaskIds |-> NewTask]]

\* The locals of one run of process_query, before any is bound.

FreshLocals ==
    /\ urls = <<>>
    /\ i = 1
    /\ scraped_data = <<>>
    /\ spc = "out"
    /\ driver = "None"
    /\ html_content = None
    /\ exit_path = "none"
    /\ j = 1
    /\ extracted_texts = <<>>
    /\ combined_text = Unbound
    /\ first_summary = Unbound
    /\ final_summary = Unbound
    /\ post_count = 0
    /\ request = NoRequest
    /\ response = [status |-> "none", body |-> NoBody]
    /\ result = Unbound
    /\ raised_at = ""
    /\ fetch_log = <<>>
    /\ extract_log = <<>>
    /\ provider = NotAsked
    /\ search_calls = 0
    /\ fetch_calls = 0
    /\ summarize_calls = 0

\* Model names and token budgets a caller passes.
RefinementSettings ==
    {[model |-> "mistral-tiny", max_tokens |-> 64],
     [model |-> "mistral-medium", max_tokens |-> 256]}

\* No call of process_query under way.
Idle ==
    /\ pc = "idle"
    /\ query = "q1"
    /\ num_results = 1
    /\ summary_sentences = 1
    /\ mistral_model_name = "mistral-tiny"
    /\ mistral_max_tokens = 64
    /\ liveDrivers = 0
    /\ reply = NoReply
    /\ FreshLocals

\* main_processor.py 25 and 51: the module is imported; load_dotenv() has
\* filled the environment and mistral_api_key is read from it.
Init ==
    /\ environ \in Keys
    /\ mistral_api_key = environ
    /\ Idle
    /\ sumCall = StIdle
    /\ cfg = CfgIdle
    /\ loop = LoopIdle

\* --------------------------------------------------------------- search
\* What the provider can do with ddgs.text(query, max_results = n): raise, or
\* hand back at most n result records, each with an href or without one.
ProviderOutcomes(n) ==
    {[raised |-> TRUE, results |-> <<>>]} \cup
    {[raised |-> FALSE, results |-> r] : r \in SeqsUpTo(URLS \cup {NoHref}, n)}

\* Mutant: a record without href is skipped and the others are kept.
search_urls_SkipMissing(o) ==
    IF o.raised THEN <<>>
    ELSE SelectSeq2(o.results, [n \in DOMAIN o.results |-> o.results[n] # NoHref])

\* Mutant: a URL the provider gave twice is kept once.
search_urls_Dedup(o) ==
    IF o.raised \/ (\E n \in DOMAIN o.results : o.results[n] = NoHref) THEN <<>>
    ELSE SelectSeq2(o.results, [n \in DOMAIN o.results |->
                       \A m \in 1..(n - 1) : o.results[m] # o.results[n]])

\* search_urls: the hrefs of the results in the provider's order; [] when the
\* provider raised, gave nothing, or a record has no href (KeyError, caught).
search_urls(o) ==
    IF o.raised THEN <<>>
    ELSE IF o.results = <<>> THEN <<>>
    ELSE IF \E n \in DOMAIN o.results : o.results[n] = NoHref THEN <<>>
    ELSE o.results

\* process_query is called.
Start ==
    /\ pc = "idle"
    /\ \E q \in Queries, n \in 1..MaxUrls, s \in 1..MaxSentences :
          /\ query' = q
          /\ num_results' = n
          /\ summary_sentences' = s
    /\ \E r \in RefinementSettings :
          /\ mistral_model_name' = r.model
          /\ mistral_max_tokens' = r.max_tokens
    /\ pc' = "search"
    /\ reply' = NoReply
    /\ UNCHANGED <<mistral_api_key, sumCall, cfg, loop, environ, urls, i, scraped_data, scraperVars,
                   liveDrivers, extractVars, summaryVars, refineVars, result,
                   raised_at, logs, calls>>

\* The value returned when the search gave no URL.
NoUrlsResult == EmptyDict

\* Lines 135-141: the search, and the early return when it gave nothing.
Search ==
    /\ pc = "search"
    /\ \E o \in ProviderOutcomes(num_results) :
          /\ provider' = o
          /\ urls' = search_urls(o)
          /\ IF urls' = <<>>
             THEN /\ pc' = "done"
                  /\ result' = NoUrlsResult
             ELSE /\ pc' = "fetch"
                  /\ UNCHANGED result
    /\ search_calls' = search_calls + 1
    /\ scraped_data' = <<>>
    /\ i' = 1
    /\ UNCHANGED <<outer, params, scraperVars, liveDrivers,
                   extractVars, summaryVars, refineVars, raised_at, logs,
                   fetch_calls, summarize_calls>>

\* ---------------------------------------------------------------- fetch
\* Everything of process_query that scrape_website does not touch.
fetchFrame == <<outer, params, urls, extractVars, summaryVars,
                refineVars, result, provider, search_calls, summarize_calls>>

\* How a call into the browser can end, besides returning.
DriverFaults == {"timeout", "webdriver", "other"}

\* scraper.py 47-54: the locals are reset and the browser is started.  When
\* the start raises, driver stays None and an except clause logs the fault.
ScrapeStart ==
    /\ pc = "fetch"
    /\ spc = "out"
    /\ i <= Len(urls)
    /\ html_content' = None
    /\ \E o \in {"ok"} \cup (DriverFaults \ {"timeout"}) :
          IF o = "ok"
          THEN /\ driver' = "live"
               /\ liveDrivers' = liveDrivers + 1
               /\ spc' = "get"
               /\ exit_path' = "none"
          ELSE /\ driver' = "None"
               /\ UNCHANGED liveDrivers
               /\ spc' = "finally"
               /\ exit_path' = o
    /\ fetch_calls' = fetch_calls + 1
    /\ UNCHANGED <<fetchFrame, pc, i, scraped_data, raised_at, logs>>

\* scraper.py 60: driver.get(url).
ScrapeGet ==
    /\ pc = "fetch"
    /\ spc = "get"
    /\ \E o \in {"ok"} \cup DriverFaults :
          IF o = "ok"
          THEN spc' = "wait" /\ UNCHANGED exit_path
          ELSE spc' = "finally" /\ exit_path' = o
    /\ UNCHANGED <<fetchFrame, pc, i, scraped_data, driver, html_content,
                   liveDrivers, raised_at, logs, fetch_calls>>

\* scraper.py 64-66: wait for the body, at most wait_timeout seconds.
ScrapeWait ==
    /\ pc = "fetch"
    /\ spc = "wait"
    /\ \E o \in {"ok"} \cup DriverFaults :
          IF o = "ok"
          THEN spc' = "source" /\ UNCHANGED exit_path
          ELSE spc' = "finally" /\ exit_path' = o
    /\ UNCHANGED <<fetchFrame, pc, i, scraped_data, driver, html_content,
                   liveDrivers, raised_at, logs, fetch_calls>>

\* scraper.py 76-79: the settle delay, then html_content = driver.page_source.
ScrapeSource ==
    /\ pc = "fetch"
    /\ spc = "source"
    /\ \/ \E h \in PageSources(urls[i]) :
             /\ html_content' = h
             /\ exit_path' = "success"
       \/ \E o \in DriverFaults \ {"timeout"} :
             /\ exit_path' = o
             /\ UNCHANGED html_content
    /\ spc' = "finally"
    /\ UNCHANGED <<fetchFrame, pc, i, scraped_data, driver, liveDrivers,
                   raised_at, logs, fetch_calls>>

\* Mutant: the finally clause quits nothing.
QuitsInFinally_Never(d) == FALSE

\* Mutant: the browser is quit at the end of the try block, not in finally.
QuitsInFinally_OnlyOnSuccess(d) == d # "None" /\ exit_path = "success"

\* scraper.py 89: the finally clause quits the browser it holds.
QuitsInFinally(d) == d # "None"

\* Mutant: the loop is left after its first iteration.
FetchLoopNext_Early(idx, us) == "extract"

\* main_processor.py 143: the for loop goes on to the next URL, or ends.
FetchLoopNext(idx, us) == IF idx > Len(us) THEN "extract" ELSE "fetch"

\* scraper.py 88-93 and main_processor.py 146-150: the finally clause, the
\* return (the locals are gone), and the caller's scraped_data[url] =
\* html_content.  driver.quit()
\* ends the browser; when it also raises, the exception leaves the finally
\* clause, scrape_website and process_query, none of which catches it.
ScrapeFinally ==
    /\ pc = "fetch"
    /\ spc = "finally"
    /\ \E quitRaises \in IF QuitsInFinally(driver) THEN BOOLEAN ELSE {FALSE} :
          /\ liveDrivers' = IF QuitsInFinally(driver) THEN liveDrivers - 1
                            ELSE liveDrivers
          /\ IF quitRaises
             THEN /\ pc' = "raised"
                  /\ raised_at' = "quit"
                  /\ UNCHANGED <<i, scraped_data, fetch_log>>
             ELSE /\ scraped_data' = DictSet(scraped_data, urls[i], html_content)
                  /\ fetch_log' = Append(fetch_log, [url |-> urls[i], html |-> html_content])
                  /\ i' = i + 1
                  /\ pc' = FetchLoopNext(i', urls)
                  /\ UNCHANGED raised_at
    /\ spc' = "out"
    /\ driver' = "None"
    /\ html_content' = None
    /\ UNCHANGED <<fetchFrame, exit_path, extract_log, fetch_calls>>

\* ------------------------------------------------------------ extraction
\* What trafilatura.extract can do with a page: hand back None or a text, or
\* raise (it catches only some exception types itself).
ExtractRaises == [t |-> "raise", v |-> <<>>]
ExtractOutcomes == {None, ExtractRaises} \cup {Str(t) : t \in Texts}

\* Mutant: the test is "is not None".
Extractable_NotNone(html) == html # None

\* main_processor.py 158: "if html_content".
Extractable(html) == Truthy(html)

\* main_processor.py 157-169, one iteration over scraped_data.items().  The
\* call of trafilatura.extract stands in no try block.
Extract ==
    /\ pc = "extract"
    /\ j <= Len(scraped_data)
    /\ LET url == scraped_data[j].k
           html == scraped_data[j].v
       IN  IF Extractable(html)
           THEN \E o \in ExtractOutcomes :
                   IF o = ExtractRaises
                   THEN /\ pc' = "raised"
                        /\ raised_at' = "extract"
                        /\ UNCHANGED <<extractVars, extract_log>>
                   ELSE /\ extracted_texts' =
                              DictSet(extracted_texts, url, IF Truthy(o) THEN o ELSE None)
                        /\ extract_log' = Append(extract_log,
                              [url |-> url, html |-> html, text |-> o])
                        /\ j' = j + 1
                        /\ pc' = IF j' > Len(scraped_data) THEN "combine" ELSE "extract"
                        /\ UNCHANGED raised_at
           ELSE /\ extracted_texts' = DictSet(extracted_texts, url, None)
                /\ j' = j + 1
                /\ pc' = IF j' > Len(scraped_data) THEN "combine" ELSE "extract"
                /\ UNCHANGED <<raised_at, extract_log>>
    /\ UNCHANGED <<outer, params, urls, i, scraped_data, scraperVars,
                   liveDrivers, summaryVars, refineVars, result, fetch_log,
                   calls>>

\* ---------------------------------------------------------------- corpus
\* Mutant: the filter without its strip(), "if text".
Contributes_NoStrip(text) == Truthy(text)

\* main_processor.py 179: the filter "if text and text.strip()".
Contributes(text) == Truthy(text) /\ strip(text.v) # <<>>

ParagraphBreak == <<"\n", "\n">>

\* main_processor.py 179: "\n\n".join(...) over processed_content.values().
CombinedText(texts) ==
    LET vals == DictValues(texts)
        kept == SelectSeq2(vals, [n \in DOMAIN vals |-> Contributes(vals[n])])
    IN  Str(Join([n \in DOMAIN kept |-> kept[n].v], ParagraphBreak))

\* Mutant: the empty-corpus branch binds None.
EmptyCorpusSummary_None == None

\* main_processor.py 183: the summary of an empty corpus.
EmptyCorpusSummary == Str(<<>>)

\* main_processor.py 175-183.
Combine ==
    /\ pc = "combine"
    /\ combined_text' = CombinedText(extracted_texts)
    /\ IF ~Truthy(combined_text')
       THEN /\ final_summary' = EmptyCorpusSummary
            /\ pc' = "sleep"
       ELSE /\ UNCHANGED final_summary
            /\ pc' = "summarize"
    /\ UNCHANGED <<outer, params, urls, i, scraped_data, scraperVars,
                   liveDrivers, extractVars, first_summary, refineVars, result,
                   raised_at, logs, calls>>

\* ------------------------------------------------------- primary summary
Min(a, b) == IF a < b THEN a ELSE b

\* The sentences the tokenizer finds in a text: each runs to its full stop,
\* surrounding whitespace dropped; a trailing piece without one counts too.
RECURSIVE SentAcc(_, _, _)
SentAcc(s, cur, acc) ==
    IF s = <<>>
    THEN IF strip(cur) = <<>> THEN acc ELSE Append(acc, strip(cur))
    ELSE IF Head(s) = "."
    THEN SentAcc(Tail(s), <<>>, Append(acc, strip(Append(cur, "."))))
    ELSE SentAcc(Tail(s), Append(cur, Head(s)), acc)

Sentences(s) == SentAcc(s, <<>>, <<>>)

Perms(n) == {f \in [1..n -> 1..n] : \A a, b \in 1..n : f[a] = f[b] => a = b}

\* What the LSA summarizer can do on a document of n sentences: raise, find
\* no word to rank (it then returns nothing), or rate the sentences; rank
\* lists the sentence numbers from the best rated down.
LsaOutcomes(n) ==
    {[kind |-> k, rank |-> [m \in 1..n |-> m]] : k \in {"error", "empty"}} \cup
    {[kind |-> "ok", rank |-> r] : r \in Perms(n)}

\* Mutant: the best rated sentences are left in the order of their rating.
BestSentences_ScoreOrder(sents, count, lsa) ==
    IF lsa.kind = "empty" THEN <<>>
    ELSE [m \in 1..Min(count, Len(sents)) |-> sents[lsa.rank[m]]]

\* LsaSummarizer.__call__: the count best rated sentences, in document order.
BestSentences(sents, count, lsa) ==
    LET n == Len(sents)
        best == {lsa.rank[m] : m \in 1..Min(count, n)}
    IN  IF lsa.kind = "empty" THEN <<>>
        ELSE SelectSeq2(sents, [m \in 1..n |-> m \in best])

\* Mutant: the try block has no except clause.
summarize_text_Uncaught(text, sentences_count, lsa) ==
    IF ~Truthy(text) \/ text.t # "str" \/ Len(strip(text.v)) = 0
    THEN Str(<<>>)
    ELSE IF lsa.kind = "error"
    THEN [t |-> "raise", v |-> <<>>]
    ELSE Str(Join(BestSentences(Sentences(text.v), sentences_count, lsa), <<" ">>))

\* Mutant: the summarizer is asked for one sentence less.
summarize_text_OneShort(text, sentences_count, lsa) ==
    IF ~Truthy(text) \/ text.t # "str" \/ Len(strip(text.v)) = 0
    THEN Str(<<>>)
    ELSE IF lsa.kind = "error"
    THEN Str(<<>>)
    ELSE Str(Join(BestSentences(Sentences(text.v), sentences_count - 1, lsa), <<" ">>))

\* main_processor.py 95-115.
summarize_text(text, sentences_count, lsa) ==
    IF ~Truthy(text) \/ text.t # "str" \/ Len(strip(text.v)) = 0
    THEN Str(<<>>)
    ELSE IF lsa.kind = "error"
    THEN Str(<<>>)
    ELSE Str(Join(BestSentences(Sentences(text.v), sentences_count, lsa), <<" ">>))

\* Mutant: the refinement is tried whether or not there is a key.
ShouldRefine_NoKeyCheck(first, key) == Truthy(first)

\* Mutant: the refinement is tried whether or not there is a summary.
ShouldRefine_NoSummaryCheck(first, key) == Truthy(key)

\* main_processor.py 189: the refinement is tried with a summary and a key.
ShouldRefine(first, key) == Truthy(first) /\ Truthy(key)

\* main_processor.py 251-256: the final summary when no refinement is tried.
Unrefined(first) == IF ~Truthy(first) THEN Str(<<>>) ELSE first

\* main_processor.py 186-190 and 251-256.
Summarize ==
    /\ pc = "summarize"
    /\ \E lsa \in LsaOutcomes(Len(Sentences(combined_text.v))) :
          first_summary' = summarize_text(combined_text, summary_sentences, lsa)
    /\ summarize_calls' = summarize_calls + 1
    /\ IF ShouldRefine(first_summary', mistral_api_key)
       THEN /\ pc' = "refine"
            /\ UNCHANGED final_summary
       ELSE /\ pc' = "sleep"
            /\ final_summary' = Unrefined(first_summary')
    /\ UNCHANGED <<outer, params, urls, i, scraped_data, scraperVars,
                   liveDrivers, extractVars, combined_text, refineVars, result,
                   raised_at, logs, provider, search_calls, fetch_calls>>

\* ------------------------------------------------------------ refinement
Body(kind, choices, first, message, content) ==
    [kind |-> kind, choices |-> choices, first |-> first, message |-> message,
     content |-> content]

\* Completions the remote model can write.
Completions == {<<>>, <<" ">>, <<"r">>, <<" ", "r", "\n">>}

\* Bodies the service can answer a request with: not JSON at all, a JSON
\* list, or a JSON object whose "choices" is missing, null, [], a string or
\* a list; the first choice with or without "message", that with or without
\* "content", the content null, a number or a string.
Bodies ==
    {Body("not_json", "absent", "none", "none", None),
     Body("list", "absent", "none", "none", None),
     Body("dict", "absent", "none", "none", None),
     Body("dict", "null", "none", "none", None),
     Body("dict", "empty", "none", "none", None),
     Body("dict", "string", "none", "none", None),
     Body("dict", "list", "not_dict", "none", None),
     Body("dict", "list", "dict", "absent", None),
     Body("dict", "list", "dict", "not_dict", None),
     Body("dict", "list", "dict", "dict", Unbound),
     Body("dict", "list", "dict", "dict", None),
     Body("dict", "list", "dict", "dict", Number)} \cup
    {Body("dict", "list", "dict", "dict", Str(c)) : c \in Completions}

\* Mutant: the completion is returned without .strip().
ParseCompletion_NoStrip(b) ==
    IF b.kind = "dict" /\ b.choices = "list" /\ b.first = "dict"
       /\ b.message = "dict" /\ b.content.t = "str"
    THEN [r |-> "ok", v |-> b.content]
    ELSE IF b.kind = "dict" /\ b.choices \in {"absent", "null", "empty"}
    THEN [r |-> "nochoices", v |-> None]
    ELSE [r |-> "raise", v |-> None]

\* main_processor.py 229-232: response.json(), .get('choices') and
\* ['choices'][0]['message']['content'].strip().  r says how it ends: "raise"
\* (some exception), "nochoices" (the else branch) or "ok" with the value.
ParseCompletion(b) ==
    IF b.kind # "dict" THEN [r |-> "raise", v |-> None]
    ELSE IF b.choices \in {"absent", "null", "empty"} THEN [r |-> "nochoices", v |-> None]
    ELSE IF b.choices = "string" THEN [r |-> "raise", v |-> None]
    ELSE IF b.first # "dict" THEN [r |-> "raise", v |-> None]
    ELSE IF b.message # "dict" THEN [r |-> "raise", v |-> None]
    ELSE IF b.content.t # "str" THEN [r |-> "raise", v |-> None]
    ELSE [r |-> "ok", v |-> Str(strip(b.content.v))]

\* Mutant: the fallback is the empty string.
RefineFallback_Empty(first) == Str(<<>>)

\* main_processor.py 236, 246, 250: the fallback.
RefineFallback(first) == first

\* main_processor.py 193-201: the system prompt, with the query in three
\* places of a fixed text (shortened here; a prompt is the sequence of its
\* pieces).
SystemPrompt(q) ==
    <<"You are an expert summarizer [...] a web search for the query \"", q,
      "\" [...] directly answers the query \"", q,
      "\" [...] Focus only on content relevant to \"", q,
      "\" and ignore irrelevant details or sections.\n">>

\* main_processor.py 202-207: the user prompt, the characters of the primary
\* summary between two fixed pieces, then the query.
UserPrompt(first, q) ==
    <<"Initial Summary Text to Refine:\n---\n">> \o first.v \o
    <<"\n---\n\nBased on the query \"", q,
      "\", provide the refined and comprehensive summary:">>

\* main_processor.py 209-212.
Messages(first, q) ==
    <<[role |-> "system", content |-> SystemPrompt(q)],
      [role |-> "user", content |-> UserPrompt(first, q)]>>

\* main_processor.py 214-218.
Headers(key) ==
    [Authorization |-> <<"Bearer ">> \o key.v,
     ContentType |-> "application/json",
     Accept |-> "application/json"]

\* Mutant: the payload is built from the defaults, not from the parameters.
Payload_Defaults(model, messages, max_tokens) ==
    [model |-> "mistral-small-latest", messages |-> messages, max_tokens |-> 150]

\* main_processor.py 219-223.
Payload(model, messages, max_tokens) ==
    [model |-> model, messages |-> messages, max_tokens |-> max_tokens]

\* main_processor.py 191-227: the prompts and the payload are built and the
\* request is sent.
RefineRequest ==
    /\ pc = "refine"
    /\ post_count' = post_count + 1
    /\ request' = [url |-> mistral_api_url,
                   headers |-> Headers(mistral_api_key),
                   json |-> Payload(mistral_model_name,
                                    Messages(first_summary, query),
                                    mistral_max_tokens)]
    /\ pc' = "post"
    /\ UNCHANGED <<outer, params, urls, i, scraped_data, scraperVars,
                   liveDrivers, extractVars, summaryVars, response, result,
                   raised_at, logs, calls>>

\* How the request can end before a body is read.
RequestFaults == {"transport_error", "timeout", "http_error"}

\* Mutant: a failed request is sent again.
AfterRequestFault_Retry == "refine"

\* Mutant: after a failed request the answer is awaited again.
AfterRequestFault_Stuck == "post"

\* main_processor.py 238-250: after a failed request the except clauses fall
\* through to the end of process_query.
AfterRequestFault == "sleep"

\* main_processor.py 226-228 and 238-250: the request fails (no connection,
\* a timeout, a status raise_for_status rejects) or a response arrives.
RefineStatus ==
    /\ pc = "post"
    /\ \E st \in {"ok"} \cup RequestFaults :
          /\ response' = [status |-> st, body |-> NoBody]
          /\ IF st = "ok"
             THEN /\ pc' = "json"
                  /\ UNCHANGED final_summary
             ELSE /\ pc' = AfterRequestFault
                  /\ final_summary' = RefineFallback(first_summary)
    /\ UNCHANGED <<outer, params, urls, i, scraped_data, scraperVars,
                   liveDrivers, extractVars, combined_text, first_summary,
                   post_count, request, result, raised_at, logs, calls>>

\* main_processor.py 229-250: the body is read and taken apart.
RefineBody ==
    /\ pc = "json"
    /\ \E b \in Bodies :
          /\ response' = [status |-> "ok", body |-> b]
          /\ final_summary' = IF ParseCompletion(b).r = "ok"
                              THEN ParseCompletion(b).v
                              ELSE RefineFallback(first_summary)
    /\ pc' = "sleep"
    /\ UNCHANGED <<outer, params, urls, i, scraped_data, scraperVars,
                   liveDrivers, extractVars, combined_text, first_summary,
                   post_count, request, result, raised_at, logs, calls>>

\* main_processor.py 258-261: the delay, then the return.
Sleep ==
    /\ pc = "sleep"
    /\ result' = final_summary
    /\ pc' = "done"
    /\ UNCHANGED <<outer, params, urls, i, scraped_data, scraperVars,
                   liveDrivers, extractVars, summaryVars, refineVars,
                   raised_at, logs, calls>>

\* ------------------------------------------------------------- endpoint
\* Mutant: the summary is passed on as it came.
SummaryReply_AsIs(q, final) ==
    [status |-> "200", query |-> q, summary |-> final, message |-> ""]

\* api_server.py 48-54: the answer when process_query returned.
SummaryReply(q, final) ==
    IF Truthy(final)
    THEN [status |-> "200", query |-> q, summary |-> final, message |-> ""]
    ELSE [status |-> "200", query |-> q, summary |-> None,
          message |-> "Could not generate a summary for this query."]

\* api_server.py 56-58: the answer when process_query raised.
ErrorReply(q) ==
    [status |-> "500", query |-> q, summary |-> Unbound,
     message |-> "An internal server error occurred"]

\* api_server.py 40-58: perform_search, the caller of process_query behind
\* POST /search, answers once its call is over; the locals of the call are
\* gone by then.
Respond ==
    /\ pc \in {"done", "raised"}
    /\ reply' = IF pc = "done" THEN SummaryReply(query, result)
                ELSE ErrorReply(query)
    /\ pc' = "idle"
    /\ urls' = <<>>
    /\ i' = 1
    /\ scraped_data' = <<>>
    /\ spc' = "out"
    /\ driver' = "None"
    /\ html_content' = None
    /\ exit_path' = "none"
    /\ j' = 1
    /\ extracted_texts' = <<>>
    /\ combined_text' = Unbound
    /\ first_summary' = Unbound
    /\ final_summary' = Unbound
    /\ post_count' = 0
    /\ request' = NoRequest
    /\ response' = [status |-> "none", body |-> NoBody]
    /\ result' = Unbound
    /\ raised_at' = ""
    /\ fetch_log' = <<>>
    /\ extract_log' = <<>>
    /\ provider' = NotAsked
    /\ search_calls' = 0
    /\ fetch_calls' = 0
    /\ summarize_calls' = 0
    /\ UNCHANGED <<mistral_api_key, sumCall, cfg, loop, environ, params, liveDrivers>>

\* Mutant: the extracted texts are kept in a dict that outlives the call.
Reset_KeepsCorpus ==
    /\ pc \in {"done", "raised"}
    /\ pc' = "idle"
    /\ urls' = <<>>
    /\ i' = 1
    /\ scraped_data' = <<>>
    /\ spc' = "out"
    /\ driver' = "None"
    /\ html_content' = None
    /\ exit_path' = "none"
    /\ j' = 1
    /\ combined_text' = Unbound
    /\ first_summary' = Unbound
    /\ final_summary' = Unbound
    /\ post_count' = 0
    /\ request' = NoRequest
    /\ response' = [status |-> "none", body |-> NoBody]
    /\ result' = Unbound
    /\ reply' = NoReply
    /\ raised_at' = ""
    /\ fetch_log' = <<>>
    /\ extract_log' = <<>>
    /\ provider' = NotAsked
    /\ search_calls' = 0
    /\ fetch_calls' = 0
    /\ summarize_calls' = 0
    /\ UNCHANGED <<mistral_api_key, sumCall, cfg, loop, environ, params, liveDrivers,
                   extracted_texts>>

\* The call is over (returned or raised) under a caller that answers
\* nothing; its locals are gone.
Reset ==
    /\ pc \in {"done", "raised"}
    /\ pc' = "idle"
    /\ urls' = <<>>
    /\ i' = 1
    /\ scraped_data' = <<>>
    /\ spc' = "out"
    /\ driver' = "None"
    /\ html_content' = None
    /\ exit_path' = "none"
    /\ j' = 1
    /\ extracted_texts' = <<>>
    /\ combined_text' = Unbound
    /\ first_summary' = Unbound
    /\ final_summary' = Unbound
    /\ post_count' = 0
    /\ request' = NoRequest
    /\ response' = [status |-> "none", body |-> NoBody]
    /\ result' = Unbound
    /\ reply' = NoReply
    /\ raised_at' = ""
    /\ fetch_log' = <<>>
    /\ extract_log' = <<>>
    /\ provider' = NotAsked
    /\ search_calls' = 0
    /\ fetch_calls' = 0
    /\ summarize_calls' = 0
    /\ UNCHANGED <<mistral_api_key, sumCall, cfg, loop, environ, params, liveDrivers>>

Next ==
    \/ Start
    \/ Search
    \/ ScrapeStart
    \/ ScrapeGet
    \/ ScrapeWait
    \/ ScrapeSource
    \/ ScrapeFinally
    \/ Extract
    \/ Combine
    \/ Summarize
    \/ RefineRequest
    \/ RefineStatus
    \/ RefineBody
    \/ Sleep
    \/ Respond
    \/ Reset

Spec == Init /\ [][Next]_vars

\* ------------------------------------------------------------- progress
\* process_query is called for one result and one sentence: what follows
\* the fetch stage does not depend on how many URLs there were.
StartSingle ==
    /\ pc = "idle"
    /\ \E q \in Queries :
          /\ query' = q
          /\ num_results' = 1
          /\ summary_sentences' = 1
    /\ \E r \in RefinementSettings :
          /\ mistral_model_name' = r.model
          /\ mistral_max_tokens' = r.max_tokens
    /\ pc' = "search"
    /\ reply' = NoReply
    /\ UNCHANGED <<mistral_api_key, sumCall, cfg, loop, environ, urls, i, scraped_data, scraperVars,
                   liveDrivers, extractVars, summaryVars, refineVars, result,
                   raised_at, logs, calls>>

LiveNext ==
    \/ StartSingle
    \/ Search
    \/ ScrapeStart
    \/ ScrapeGet
    \/ ScrapeWait
    \/ ScrapeSource
    \/ ScrapeFinally
    \/ Extract
    \/ Combine
    \/ Summarize
    \/ RefineRequest
    \/ RefineStatus
    \/ RefineBody
    \/ Sleep
    \/ Respond
    \/ Reset

\* The awaits of the refinement step come back: main_processor.py 226-229
\* opens aiohttp.ClientSession() with no timeout argument, so the session's
\* default total timeout ends a request and a body read that get no answer;
\* asyncio.sleep(0.1) at line 260 ends.
RefinementProgress ==
    /\ WF_vars(RefineStatus)
    /\ WF_vars(RefineBody)
    /\ WF_vars(Sleep)

LiveSpec == Init /\ [][LiveNext]_vars /\ RefinementProgress

\* ------------------------------------------- summarize_text on its own
\* Everything of a call of process_query.
pipeline == <<pc, params, urls, i, scraped_data, scraperVars, liveDrivers,
              extractVars, summaryVars, refineVars, result, raised_at, logs,
              calls, reply>>

\* What a caller can pass as text: no string, an empty or blank string, or
\* up to MaxCorpusSentences sentences.
SumTexts ==
    {None, Number, EmptyDict, Str(<<>>), Str(<<" ">>), Str(<<"\n", " ">>)} \cup
    {Str(Join(p, <<" ">>)) :
        p \in SeqsUpTo({TextA, TextB}, MaxCorpusSentences) \ {<<>>}}

\* summarize_text(text, sentences_count) has been called.
SumInit ==
    /\ environ = None
    /\ mistral_api_key = environ
    /\ loop = LoopIdle
    /\ Idle
    /\ cfg = CfgIdle
    /\ \E t \in SumTexts, c \in 1..MaxSentences :
          sumCall = [pc |-> "called", text |-> t, sentences_count |-> c,
                     lsa |-> NoLsa, summary |-> Unbound, again |-> NoAgain]

\* main_processor.py 95-115: the call returns; lsa is what the LSA step
\* does on this text when the call gets that far.
SumReturn ==
    /\ sumCall.pc = "called"
    /\ \E lsa \in LsaOutcomes(Len(Sentences(sumCall.text.v))) :
          sumCall' = [sumCall EXCEPT
              !.pc = "returned",
              !.lsa = lsa,
              !.summary = summarize_text(sumCall.text, sumCall.sentences_count, lsa)]
    /\ UNCHANGED <<mistral_api_key, pipeline, cfg, loop, environ>>

\* The caller passes the summary it got to summarize_text again, with the
\* same sentence count.
SumAgain ==
    /\ sumCall.pc = "returned"
    /\ \E lsa \in LsaOutcomes(Len(Sentences(sumCall.summary.v))) :
          sumCall' = [sumCall EXCEPT
              !.pc = "again",
              !.again = [lsa |-> lsa,
                         summary |-> summarize_text(sumCall.summary,
                                                    sumCall.sentences_count, lsa)]]
    /\ UNCHANGED <<mistral_api_key, pipeline, cfg, loop, environ>>

SumNext ==
    \/ SumReturn
    \/ SumAgain

SumSpec == SumInit /\ [][SumNext]_vars

\* ------------------------------------------------------- configuration
\* main_processor.py 43-48: the module global, a dict, read for what it
\* holds at the time.
DEFAULT_CONFIG == cfg.defaults

\* What a JSON object in the file can hold under a key: nothing, a value of
\* the key's type, a value of another type, or null.
KeyValues(k) ==
    IF k = "mistral_model"
    THEN {Missing, JStr("mistral-tiny"), JInt(7), JNull}
    ELSE {Missing, JInt(3), JStr("five"), JNull}

Objects == {o \in [ConfigKeys -> UNION {KeyValues(k) : k \in ConfigKeys}] :
               \A k \in ConfigKeys : o[k] \in KeyValues(k)}

\* The states config.json can be in when load_config opens it.
Files ==
    {NoFile,
     File("unreadable", "none", NoConfig),
     File("not_json", "none", NoConfig),
     File("json", "number", NoConfig),
     File("json", "string", NoConfig),
     File("json", "null", NoConfig),
     File("json", "list", NoConfig)} \cup
    {File("json", "object", o) : o \in Objects}

\* Mutant: the last except clause returns an empty dict.
load_config_EmptyOnError(file) ==
    IF file.state = "missing" THEN DEFAULT_CONFIG
    ELSE IF file.state = "not_json" THEN DEFAULT_CONFIG
    ELSE IF file.state = "unreadable" THEN NoConfig
    ELSE IF file.kind # "object" THEN NoConfig
    ELSE [k \in ConfigKeys |->
             IF file.object[k] # Missing THEN file.object[k] ELSE DEFAULT_CONFIG[k]]

\* main_processor.py 63-88: FileNotFoundError, JSONDecodeError and any other
\* exception (the file cannot be read; dict.update rejects a JSON value
\* that is no object) give DEFAULT_CONFIG; otherwise a copy of it updated
\* with what the file holds, whatever the values are.
load_config(file) ==
    IF file.state = "missing" THEN DEFAULT_CONFIG
    ELSE IF file.state = "not_json" THEN DEFAULT_CONFIG
    ELSE IF file.state = "unreadable" THEN DEFAULT_CONFIG
    ELSE IF file.kind # "object" THEN DEFAULT_CONFIG
    ELSE [k \in ConfigKeys |->
             IF file.object[k] # Missing THEN file.object[k] ELSE DEFAULT_CONFIG[k]]

\* main_processor.py 76-88: the statement "return DEFAULT_CONFIG" of the
\* three except clauses hands out the module's dict itself; only the try
\* block returns a copy.
ReturnsTheDefaultsObject(file) ==
    file.state # "json" \/ file.kind # "object"

\* api_server.py 19-22: config.get(key, DEFAULT_CONFIG[key]) for each key.
Settings(config) ==
    [k \in ConfigKeys |->
        IF config[k] # Missing THEN config[k] ELSE DEFAULT_CONFIG[k]]

\* api_server.py is imported: config.json is in some state.
CfgInit ==
    /\ environ = None
    /\ mistral_api_key = environ
    /\ loop = LoopIdle
    /\ Idle
    /\ sumCall = StIdle
    /\ \E f \in Files :
          cfg = [CfgIdle EXCEPT !.pc = "start", !.file = f]

\* api_server.py 18: config = load_config().
LoadConfig ==
    /\ cfg.pc = "start"
    /\ cfg' = [cfg EXCEPT !.pc = "loaded",
                           !.config = load_config(cfg.file),
                           !.shared = ReturnsTheDefaultsObject(cfg.file)]
    /\ UNCHANGED <<mistral_api_key, pipeline, sumCall, loop, environ>>

\* api_server.py 19-22: the four settings are read from config.
ReadSettings ==
    /\ cfg.pc = "loaded"
    /\ cfg' = [cfg EXCEPT !.pc = "served", !.settings = Settings(cfg.config)]
    /\ UNCHANGED <<mistral_api_key, pipeline, sumCall, loop, environ>>

CfgNext ==
    \/ LoadConfig
    \/ ReadSettings

CfgSpec == CfgInit /\ [][CfgNext]_vars

\* ------------------------------------------- several queries on one loop
\* perform_search is a coroutine of the server's event loop and awaits
\* process_query (api_server.py 25, 40): each request is a task of that loop,
\* and a task gives the loop to another one only at an await that suspends.

\* Mutant: the page load is awaited, the browser staying open meanwhile.
SuspendsAt_PageLoad == {"browser", "post", "json", "sleep"}

\* main_processor.py 226-229 and 260: the awaits of process_query, at the
\* request, at the body of the response and at the final delay.  search_urls,
\* scrape_website (with its time.sleep), trafilatura.extract and
\* summarize_text are plain calls.
SuspendsAt == {"post", "json", "sleep"}

\* Where a task is over: process_query returned or raised, and perform_search
\* answered (api_server.py 48-58, no await there).
Over == {"done", "raised"}

\* The loop may run task t: t is running, or nothing runs and t is a new
\* request or stands at an await.
Runnable(t) ==
    \/ loop.running = t
    \/ /\ loop.running = 0
       /\ loop.tasks[t].pc \in {"new"} \cup SuspendsAt

\* Task t goes on to position p; it keeps the loop unless p is an await or
\* its end.
Move(t, p, left, browser) ==
    [running |-> IF p \in SuspendsAt \cup Over THEN 0 ELSE t,
     tasks |-> [loop.tasks EXCEPT ![t] = [pc |-> p, left |-> left,
                                          browser |-> browser]]]

loopFrame == <<mistral_api_key, pipeline, sumCall, cfg, environ>>

\* api_server.py 32-40 and main_processor.py 132: a request is taken up.
TaskStart ==
    /\ \E t \in TaskIds :
          /\ Runnable(t)
          /\ loop.tasks[t].pc = "new"
          /\ loop' = Move(t, "search", 0, FALSE)
    /\ UNCHANGED loopFrame

\* main_processor.py 134-138: the search; without URLs the call returns at
\* once, with no delay.
TaskSearch ==
    /\ \E t \in TaskIds :
          /\ Runnable(t)
          /\ loop.tasks[t].pc = "search"
          /\ \E n \in 0..MaxUrls :
                loop' = IF n = 0 THEN Move(t, "done", 0, FALSE)
                        ELSE Move(t, "fetch", n, FALSE)
    /\ UNCHANGED loopFrame

\* The fetch loop after one more entry is done (main_processor.py 143).
AfterFetch(left) == IF left = 0 THEN "extract" ELSE "fetch"

\* main_processor.py 145 and scraper.py 47-54: scrape_website is called and
\* starts a browser, or fails to and returns None.
TaskFetch ==
    /\ \E t \in TaskIds :
          /\ Runnable(t)
          /\ loop.tasks[t].pc = "fetch"
          /\ LET left == loop.tasks[t].left
             IN  \/ loop' = Move(t, "browser", left, TRUE)
                 \/ loop' = Move(t, AfterFetch(left - 1), left - 1, FALSE)
    /\ UNCHANGED loopFrame

\* scraper.py 60-93: the page is loaded (or not) and the finally clause
\* quits the browser; when driver.quit() raises, the query is over.
TaskQuit ==
    /\ \E t \in TaskIds :
          /\ Runnable(t)
          /\ loop.tasks[t].pc = "browser"
          /\ LET left == loop.tasks[t].left
             IN  \/ loop' = Move(t, AfterFetch(left - 1), left - 1, FALSE)
                 \/ loop' = Move(t, "raised", left, FALSE)
    /\ UNCHANGED loopFrame

\* main_processor.py 155-183: the extraction and the join; the extractor
\* raises, or the corpus is empty (on to the delay), or there is a corpus.
TaskExtract ==
    /\ \E t \in TaskIds :
          /\ Runnable(t)
          /\ loop.tasks[t].pc = "extract"
          /\ \E p \in {"raised", "sleep", "summarize"} :
                loop' = Move(t, p, 0, FALSE)
    /\ UNCHANGED loopFrame

\* main_processor.py 186-227 and 251-256: the primary summary; then the
\* request is built and sent, or refinement is skipped.
TaskSummarize ==
    /\ \E t \in TaskIds :
          /\ Runnable(t)
          /\ loop.tasks[t].pc = "summarize"
          /\ \E p \in {"post", "sleep"} :
                loop' = Move(t, p, 0, FALSE)
    /\ UNCHANGED loopFrame

\* main_processor.py 227-229 and 238-250: the answer to the request is in
\* (on to reading the body) or the request failed (on to the delay).
TaskResponse ==
    /\ \E t \in TaskIds :
          /\ Runnable(t)
          /\ loop.tasks[t].pc = "post"
          /\ \E p \in {"json", "sleep"} :
                loop' = Move(t, p, 0, FALSE)
    /\ UNCHANGED loopFrame

\* main_processor.py 229-250: the body is read and taken apart.
TaskBody ==
    /\ \E t \in TaskIds :
          /\ Runnable(t)
          /\ loop.tasks[t].pc = "json"
          /\ loop' = Move(t, "sleep", 0, FALSE)
    /\ UNCHANGED loopFrame

\* main_processor.py 260-261 and api_server.py 48-54: the delay is over, the
\* call returns and the request is answered.
TaskWake ==
    /\ \E t \in TaskIds :
          /\ Runnable(t)
          /\ loop.tasks[t].pc = "sleep"
          /\ loop' = Move(t, "done", 0, FALSE)
    /\ UNCHANGED loopFrame

\* The service is up, with a credential, and no request has come yet.
LoopInit ==
    /\ environ = Str(<<"k">>)
    /\ mistral_api_key = environ
    /\ Idle
    /\ sumCall = StIdle
    /\ cfg = CfgIdle
    /\ loop = LoopIdle

LoopNext ==
    \/ TaskStart
    \/ TaskSearch
    \/ TaskFetch
    \/ TaskQuit
    \/ TaskExtract
    \/ TaskSummarize
    \/ TaskResponse
    \/ TaskBody
    \/ TaskWake

LoopSpec == LoopInit /\ [][LoopNext]_vars

\* ----------------------------------- load_config under a library caller
\* The files a caller's load_config calls find: none, an unreadable one, one
\* that is not JSON, a JSON list, and two JSON objects.
CallerFiles ==
    {NoFile,
     File("unreadable", "none", NoConfig),
     File("not_json", "none", NoConfig),
     File("json", "list", NoConfig),
     File("json", "object", NoConfig),
     File("json", "object", [NoConfig EXCEPT !["search_results_count"] = JInt(3)])}

\* What a caller can bind a key of a configuration it holds to (Missing: the
\* key is deleted).
CallerValues(k) == KeyValues(k) \ {JNull}

\* The module is imported by a caller that has not loaded a configuration.
DefaultsInit ==
    /\ environ = None
    /\ mistral_api_key = environ
    /\ loop = LoopIdle
    /\ Idle
    /\ sumCall = StIdle
    /\ cfg = [CfgIdle EXCEPT !.pc = "imported"]

\* main_processor.py 63-88: the caller calls load_config(path) and binds the
\* object it gets; the file at path is in some state.
CallLoadConfig ==
    /\ cfg.pc \in {"imported", "loaded", "modified"}
    /\ \E f \in CallerFiles :
          cfg' = [cfg EXCEPT !.pc = "loaded",
                             !.file = f,
                             !.config = load_config(f),
                             !.shared = ReturnsTheDefaultsObject(f)]
    /\ UNCHANGED <<mistral_api_key, pipeline, sumCall, loop, environ>>

\* The caller writes to the configuration object it holds: config[k] = v or
\* del config[k].  When that object is the dict DEFAULT_CONFIG (main_processor.py
\* 82, 85, 88), the write is a write to DEFAULT_CONFIG.
CallerWrites ==
    /\ cfg.pc \in {"loaded", "modified"}
    /\ \E k \in ConfigKeys : \E v \in CallerValues(k) :
          cfg' = [cfg EXCEPT !.pc = "modified",
                             !.config[k] = v,
                             !.defaults[k] = IF cfg.shared THEN v ELSE @]
    /\ UNCHANGED <<mistral_api_key, pipeline, sumCall, loop, environ>>

DefaultsNext ==
    \/ CallLoadConfig
    \/ CallerWrites

DefaultsSpec == DefaultsInit /\ [][DefaultsNext]_vars

\* --------------------------------------- the environment after the import
\* Mutant: the credential is read from the environment again when that
\* changes.
SetEnviron_Rebinds ==
    /\ \E v \in Keys \ {environ} :
          /\ environ' = v
          /\ mistral_api_key' = v
    /\ UNCHANGED <<pipeline, sumCall, cfg, loop>>

\* MISTRAL_API_KEY is set, changed or unset in the environment of the running
\* process.  main_processor.py 25 and 51 run at import only: nothing reads
\* the environment afterwards, and process_query reads the global (189, 215).
SetEnviron ==
    /\ \E v \in Keys \ {environ} :
          /\ environ' = v
          /\ UNCHANGED mistral_api_key
    /\ UNCHANGED <<pipeline, sumCall, cfg, loop>>

EnvNext ==
    \/ StartSingle
    \/ Search
    \/ ScrapeStart
    \/ ScrapeGet
    \/ ScrapeWait
    \/ ScrapeSource
    \/ ScrapeFinally
    \/ Extract
    \/ Combine
    \/ Summarize
    \/ RefineRequest
    \/ RefineStatus
    \/ RefineBody
    \/ Sleep
    \/ Respond
    \/ Reset
    \/ SetEnviron

EnvSpec == Init /\ [][EnvNext]_vars

\* ================================================================ claims
\* process_query has returned.
Returned == pc = "done"

\* C1: whatever recoverable failures happen (provider error, failed fetches,
\* pages without text or an extraction fault, summarizer or refinement
\* failure), process_query returns a value and raises nothing to its caller.
C1_NeverRaises == pc # "raised"

\* C2: when the search gives no URL, process_query returns the empty string.
C2_NoUrlsGivesEmptyString ==
    (Returned /\ urls = <<>>) => result = Str(<<>>)

\* The trimmed completion of the response, when it has one.
TrimmedCompletion ==
    IF response.status = "ok" /\ response.body.content.t = "str"
    THEN Str(strip(response.body.content.v))
    ELSE Str(<<>>)

\* C3: on every return path the result is a string (not null, not another
\* type), and it is the empty string, the primary summary or the trimmed
\* refined output.
C3_ResultIsAString ==
    Returned =>
        /\ result.t = "str"
        /\ result \in {Str(<<>>), first_summary, TrimmedCompletion}

\* C4: without refinement credentials, a query with a non-empty corpus
\* returns the primary summary unchanged.
C4_NoKeyReturnsPrimary ==
    (Returned /\ ~Truthy(mistral_api_key) /\ Truthy(combined_text))
        => result = first_summary

C4_Witness ==
    /\ Returned
    /\ mistral_api_key = None
    /\ Truthy(combined_text)
    /\ Truthy(first_summary)
    /\ result = first_summary

\* The body has the shape {choices: [{message: {content: <string>}}]}.
ExpectedShape(b) ==
    /\ b.kind = "dict"
    /\ b.choices = "list"
    /\ b.first = "dict"
    /\ b.message = "dict"
    /\ b.content.t = "str"

\* A request was sent and it failed: no connection, a timeout, an HTTP error
\* status, or a body that is not of the expected shape.
RefinementFailed ==
    /\ post_count > 0
    /\ \/ response.status \in RequestFaults
       \/ response.status = "ok" /\ ~ExpectedShape(response.body)

\* C5: when the remote refinement call fails for any reason, process_query
\* returns the primary summary.
C5_FailedRefinementReturnsPrimary ==
    (Returned /\ RefinementFailed) => result = first_summary

C5_Witness ==
    /\ Returned
    /\ post_count = 1
    /\ response.status = "ok"
    /\ response.body.kind = "dict"
    /\ response.body.choices = "list"
    /\ response.body.first = "dict"
    /\ response.body.message = "absent"
    /\ result = first_summary
    /\ Truthy(result)

\* C6: the refinement step returns the trimmed completion exactly when the
\* response is well formed, and the primary summary, verbatim, for every
\* other response; no exception leaves it.
C6_RefinedOnlyWhenWellFormed ==
    /\ (Returned /\ post_count > 0) =>
          IF response.status = "ok" /\ ExpectedShape(response.body)
          THEN result = Str(strip(response.body.content.v))
          ELSE result = first_summary
    /\ pc = "raised" => post_count = 0

C6_Witness ==
    /\ Returned
    /\ post_count = 1
    /\ response.status = "ok"
    /\ ExpectedShape(response.body)
    /\ response.body.content = Str(<<" ", "r", "\n">>)
    /\ result = Str(<<"r">>)
    /\ result # first_summary

\* C7: with an empty corpus the primary summary (what the summarizer makes
\* of that corpus, and anything bound as first_summary) and the final
\* summary are the empty string, and no refinement request is sent.
C7_EmptyCorpus ==
    combined_text = Str(<<>>) =>
        /\ \A lsa \in LsaOutcomes(0) :
              summarize_text(combined_text, summary_sentences, lsa) = Str(<<>>)
        /\ first_summary \in {Unbound, Str(<<>>)}
        /\ final_summary = Str(<<>>)
        /\ Returned => result = Str(<<>>)
        /\ post_count = 0
        /\ pc \in {"sleep", "done"}

C7_Witness ==
    /\ Returned
    /\ combined_text = Str(<<>>)
    /\ Truthy(mistral_api_key)
    /\ Len(fetch_log) = 2
    /\ Len(extract_log) = 2
    /\ result = Str(<<>>)
    /\ post_count = 0

\* The texts of the extraction calls, in call order, that have a character
\* other than whitespace.
RECURSIVE SolidTexts(_)
SolidTexts(log) ==
    IF log = <<>> THEN <<>>
    ELSE LET t == Head(log).text
         IN  IF t.t = "str" /\ (\E n \in DOMAIN t.v : ~IsSpace(t.v[n]))
             THEN <<t.v>> \o SolidTexts(Tail(log))
             ELSE SolidTexts(Tail(log))

\* The URLs of a sequence, each at its first occurrence.
RECURSIVE FirstOccurrences(_)
FirstOccurrences(us) ==
    IF us = <<>> THEN <<>>
    ELSE LET rest == FirstOccurrences(SubSeq(us, 1, Len(us) - 1))
             u == us[Len(us)]
         IN  IF \E n \in DOMAIN rest : rest[n] = u THEN rest ELSE Append(rest, u)

\* a is b with some elements left out.
RECURSIVE IsSubsequence(_, _)
IsSubsequence(a, b) ==
    IF a = <<>> THEN TRUE
    ELSE IF b = <<>> THEN FALSE
    ELSE IF Head(a) = Head(b) THEN IsSubsequence(Tail(a), Tail(b))
    ELSE IsSubsequence(a, Tail(b))

\* C8: the corpus is the double-newline join of exactly the extracted texts
\* that are neither null, empty nor whitespace-only, in the order in which
\* the URLs were processed.
C8_CorpusIsJoinOfTexts ==
    combined_text # Unbound =>
        /\ combined_text = Str(Join(SolidTexts(extract_log), <<"\n", "\n">>))
        /\ IsSubsequence([n \in DOMAIN extract_log |-> extract_log[n].url],
                         FirstOccurrences(urls))

C8_Witness ==
    /\ Returned
    /\ urls = <<"u2", "u1">>
    /\ [n \in DOMAIN extract_log |-> extract_log[n].url] = <<"u2", "u1">>
    /\ [n \in DOMAIN extract_log |-> extract_log[n].text] = <<Str(TextB), Str(TextA)>>
    /\ combined_text = Str(<<"b", ".", "\n", "\n", "a", ".">>)

\* The fetch stage is over.
FetchStageOver == pc \in {"extract", "combine", "summarize", "refine", "post",
                          "json", "sleep"}

\* C9: for a search result of k entries, duplicates included, the fetch
\* stage records exactly k outcomes, each markup or the failure marker, and
\* there are at most k extraction outcomes.
C9_OneOutcomePerEntry ==
    FetchStageOver =>
        /\ Len(scraped_data) = Len(urls)
        /\ \A n \in DOMAIN scraped_data : scraped_data[n].v.t \in {"str", "None"}
        /\ Len(extracted_texts) <= Len(urls)

\* C10: a fetch that started a browser has quit it when it returns, however
\* its try block was left; outside scrape_website no browser is live.
C10_DriverReleased ==
    /\ spc = "out" => liveDrivers = 0
    /\ liveDrivers \in {0, 1}
    /\ liveDrivers = 1 <=> driver = "live"

C10_Witness ==
    /\ spc = "out"
    /\ pc = "extract"
    /\ exit_path = "timeout"
    /\ Len(fetch_log) = 3
    /\ liveDrivers = 0

\* C11: a fetch failure of one URL (a timeout or an execution error, also
\* while the browser is started or quit) comes back as the failure marker
\* and is not raised; every URL of the batch is still fetched.
C11_FetchFailureIsolated ==
    /\ raised_at # "quit"
    /\ (pc \notin {"idle", "search", "fetch"} /\ urls # <<>>)
          => fetch_calls = Len(urls)
    /\ \A n \in DOMAIN fetch_log :
          fetch_log[n].html.t \in {"None", "str"}

\* The stage of the pipeline a position of process_query belongs to.
Stage(p) ==
    CASE p = "idle" -> 0
      [] p = "search" -> 1
      [] p = "fetch" -> 2
      [] p = "extract" -> 3
      [] p \in {"combine", "summarize"} -> 4
      [] p \in {"refine", "post", "json"} -> 5
      [] p \in {"sleep", "done"} -> 6
      [] OTHER -> 7

StagesInOrder ==
    \/ pc' = "idle"
    \/ pc' = "raised"
    \/ Stage(pc') >= Stage(pc)

StageFacts ==
    /\ (pc \in {"extract", "combine", "summarize", "refine", "post", "json",
                "sleep"} \/ extract_log # <<>>)
          => (Len(fetch_log) = Len(urls) /\ spc = "out")
    /\ (search_calls > 0 /\ urls = <<>>)
          => /\ pc = "done"
             /\ fetch_calls = 0
             /\ extract_log = <<>>
             /\ summarize_calls = 0
             /\ post_count = 0
    /\ combined_text = Str(<<>>)
          => (pc \in {"sleep", "done"} /\ post_count = 0)

\* C12: the stages of a query run in the order Idle, Searching, Fetching,
\* Extracting, Summarizing, Refining, Done and none is entered again; all
\* fetches are over before the first extraction; an empty search result goes
\* straight to Done with no fetch, extraction, summary or refinement, and an
\* empty corpus goes to Done without refinement.
C12_StageOrder == []StageFacts /\ [][StagesInOrder]_vars

C12_Witness ==
    /\ Returned
    /\ Len(fetch_log) = 2
    /\ Len(extract_log) = 2
    /\ summarize_calls = 1
    /\ post_count = 1

HasNoHref(r) == \E n \in DOMAIN r : r[n] = NoHref

\* C13: no exception leaves the Search Resolver: when the provider raises,
\* or hands back a record without the URL field, the result is empty.
C13_SearchErrorsGiveEmpty ==
    /\ raised_at # "search"
    /\ (search_calls > 0 /\ (provider.raised \/ HasNoHref(provider.results)))
          => (urls = <<>> /\ pc = "done")

C13_Witness ==
    /\ Returned
    /\ provider.results = <<"u1", NoHref>>
    /\ urls = <<>>

\* C14: the Search Resolver returns the provider's URLs in the provider's
\* order, one per result, duplicates kept.
C14_ProviderOrderKept ==
    (search_calls > 0 /\ ~provider.raised /\ ~HasNoHref(provider.results))
        => /\ Len(urls) = Len(provider.results)
           /\ \A n \in DOMAIN urls : urls[n] = provider.results[n]

C14_Witness ==
    /\ pc = "fetch"
    /\ provider.results = <<"u2", "u1", "u2">>
    /\ urls = <<"u2", "u1", "u2">>

\* The extraction is over and the corpus is built.
CorpusBuilt == combined_text # Unbound

\* The text recorded for a URL.
TextOf(u) ==
    LET n == CHOOSE n \in DOMAIN extracted_texts : extracted_texts[n].k = u
    IN  extracted_texts[n].v

\* The corpus with one contribution per search-result entry.
CorpusPerEntry ==
    LET texts == [n \in DOMAIN urls |-> TextOf(urls[n])]
        kept == SelectSeq2(texts, [n \in DOMAIN texts |->
                    texts[n].t = "str" /\ (\E m \in DOMAIN texts[n].v : ~IsSpace(texts[n].v[m]))])
    IN  Str(Join([n \in DOMAIN kept |-> kept[n].v], <<"\n", "\n">>))

Count(u, us) == Cardinality({n \in DOMAIN us : us[n] = u})

\* C15: no URL deduplication: a URL that is m times in the search result is
\* fetched m times and its text is m times in the corpus, at the places of
\* its occurrences.
C15_NoDeduplication ==
    CorpusBuilt =>
        /\ \A u \in URLS :
              Count(u, [n \in DOMAIN fetch_log |-> fetch_log[n].url]) = Count(u, urls)
        /\ combined_text = CorpusPerEntry

\* The outcome recorded for a URL by the fetch stage.
RecordedMarkup(u) ==
    LET n == CHOOSE n \in DOMAIN scraped_data : scraped_data[n].k = u
    IN  scraped_data[n].v

\* C16: the extractor is called only on the markup of a URL whose fetch
\* succeeded; a URL whose recorded fetch outcome is a failure (or empty
\* markup) is never extracted, is recorded as None and adds nothing to the
\* corpus.
C16_ExtractOnlyFetched ==
    /\ \A n \in DOMAIN extract_log :
          /\ extract_log[n].html.t = "str"
          /\ extract_log[n].html.v # <<>>
          /\ \E m \in DOMAIN fetch_log :
                /\ fetch_log[m].url = extract_log[n].url
                /\ fetch_log[m].html = extract_log[n].html
    /\ \A n \in DOMAIN extracted_texts :
          LET u == extracted_texts[n].k
          IN  (RecordedMarkup(u) = None \/ RecordedMarkup(u) = Str(<<>>))
                 => /\ extracted_texts[n].v = None
                    /\ \A m \in DOMAIN extract_log : extract_log[m].url # u
    /\ CorpusBuilt =>
          Len(SolidTexts(extract_log)) =
             Cardinality({n \in DOMAIN extracted_texts :
                             /\ extracted_texts[n].v # None
                             /\ strip(extracted_texts[n].v.v) # <<>>})

C16_Witness ==
    /\ Returned
    /\ Len(scraped_data) = 2
    /\ scraped_data[1].v = None
    /\ scraped_data[2].v = Str(<<"p">>)
    /\ extracted_texts[1].v = None
    /\ extracted_texts[2].v = Str(TextA)
    /\ Len(extract_log) = 1
    /\ combined_text = Str(TextA)

\* C17: at most one refinement request per query: after a failed or unusable
\* response the step falls back and sends nothing more.
C17_OneRequest ==
    /\ post_count <= 1
    /\ response.status # "none" => pc \in {"json", "sleep", "done"}
    /\ response.status \in RequestFaults => pc \in {"sleep", "done"}

C17_Witness ==
    /\ Returned
    /\ post_count = 1
    /\ response.status = "timeout"

\* C18: no refinement request is sent without credentials or with an empty
\* primary summary; the result is then the primary summary, unchanged.
C18_NoRequestWithoutKeyOrSummary ==
    (summarize_calls > 0 /\ (~Truthy(mistral_api_key) \/ first_summary = Str(<<>>)))
        => /\ post_count = 0
           /\ pc \in {"sleep", "done"}
           /\ final_summary = first_summary
           /\ Returned => result = first_summary

C18_Witness ==
    /\ Returned
    /\ mistral_api_key = Str(<<"k">>)
    /\ Truthy(combined_text)
    /\ first_summary = Str(<<>>)
    /\ post_count = 0
    /\ result = Str(<<>>)

\* The call of process_query is over.
Ended == pc \in {"done", "raised"}

\* C19: per query the Search Resolver is called exactly once, the Fetcher
\* exactly once per search-result entry, the Extractor at most once per URL,
\* the Primary Summarizer at most once, and the Refinement Summarizer at
\* most once and only after the Primary Summarizer returned.
C19_CallCounts ==
    /\ Ended =>
          /\ search_calls = 1
          /\ fetch_calls = Len(urls)
    /\ \A u \in URLS :
          Count(u, [n \in DOMAIN extract_log |-> extract_log[n].url]) <= 1
    /\ summarize_calls <= 1
    /\ post_count <= 1
    /\ pc \in {"refine", "post", "json"} \/ post_count > 0
          => (summarize_calls = 1 /\ first_summary # Unbound)

\* A fetch is under way in the browser and entries of the batch are left.
FetchPending ==
    /\ pc = "fetch"
    /\ spc \in {"get", "wait"}
    /\ \E n \in (i + 1)..Len(urls) : urls[n] # urls[i]

\* C20: a fetch that is stuck does not hold up the fetches of the other
\* URLs: while it is under way (driver.get or the wait has not come back) a
\* call of scrape_website for another entry can start; and its browser is
\* quit when its deadline fires.
C20_StuckFetchDoesNotStall ==
    /\ FetchPending => ENABLED ScrapeStart
    /\ (spc = "finally" /\ exit_path = "timeout") => ENABLED ScrapeFinally

\* C21: the number of browsers live at the same time never exceeds a fixed
\* bound (one), whatever the number of URLs in the search result; a browser
\* is live only inside a call of scrape_website.
C21_BoundedLiveBrowsers ==
    /\ liveDrivers <= 1
    /\ liveDrivers = 1 =>
          (pc = "fetch" /\ spc \in {"get", "wait", "source", "finally"})

C21_Witness ==
    /\ pc = "fetch"
    /\ Len(urls) = MaxUrls
    /\ i = MaxUrls
    /\ liveDrivers = 1
    /\ Len(fetch_log) = MaxUrls - 1
    /\ \A n \in DOMAIN fetch_log : Truthy(fetch_log[n].html)

\* C22: once the refinement request is sent the query reaches Done; when
\* the service never answered and the timeout fired, the final Summary is
\* the primary summary.
C22_TimeoutStillReturns ==
    (pc = "post") ~>
        (Returned /\ (response.status = "timeout" => result = first_summary))

C22_Witness ==
    /\ Returned
    /\ post_count = 1
    /\ response.status = "timeout"
    /\ Truthy(first_summary)
    /\ final_summary = first_summary
    /\ result = first_summary

\* The text is empty, whitespace-only or not a string.
NoUsableText(text) == text.t # "str" \/ strip(text.v) = <<>>

\* C23: summarize_text returns the empty string, without raising, when the
\* corpus is empty, whitespace-only or not a string, and when an internal
\* step of the summarization fails; whatever happens it returns a string.
C23_SummarizerNeverRaises ==
    sumCall.pc \in {"returned", "again"} =>
        /\ sumCall.summary.t = "str"
        /\ (NoUsableText(sumCall.text) \/ sumCall.lsa.kind = "error")
              => sumCall.summary = Str(<<>>)

C23_Witness ==
    /\ sumCall.pc = "returned"
    /\ sumCall.text = Str(Join(<<TextA, TextB>>, <<" ">>))
    /\ sumCall.lsa.kind = "error"
    /\ sumCall.summary = Str(<<>>)

\* The ways to take k of the sentences sents and join them, by single
\* spaces, in the order they have in sents.
OrderedPicks(sents, k) ==
    {Join(SelectSeq2(sents, [m \in DOMAIN sents |-> m \in K]), <<" ">>) :
        K \in {K \in SUBSET (DOMAIN sents) : Cardinality(K) = k}}

Answers == pc \in {"done", "raised"} /\ reply' # NoReply

\* The pipeline yielded no summary: the search gave no URL, the corpus was
\* empty, or the summary that came out is empty.
YieldedNoSummary ==
    \/ urls = <<>>
    \/ combined_text = Str(<<>>)
    \/ result = Str(<<>>)

C26_Answer ==
    Answers =>
        /\ pc = "raised" <=> reply'.status = "500"
        /\ pc = "done" <=> reply'.status = "200"
        /\ (pc = "done" /\ YieldedNoSummary) =>
              (reply'.summary = None /\ reply'.message # "")
        /\ (pc = "done" /\ ~YieldedNoSummary) =>
              /\ reply'.summary = result
              /\ reply'.summary.t = "str"
              /\ reply'.summary.v # <<>>
              /\ reply'.message = ""
        /\ reply'.summary # Str(<<>>)
        /\ reply'.query = query

\* C26: the endpoint answers 200 with a null summary and a message whenever
\* the pipeline yields no summary (empty search, empty corpus, empty
\* summary), 200 with a non-empty string summary otherwise, and 500 only
\* when the pipeline raises; the summary field is never the empty string.
C26_EndpointAnswers == [][C26_Answer]_vars

C26_Witness ==
    /\ pc = "idle"
    /\ reply.status = "200"
    /\ reply.summary = None
    /\ reply.message = "Could not generate a summary for this query."

\* The documented defaults: 5 results, 50 sentences, the default model,
\* 150 tokens.
DocumentedDefaults ==
    [search_results_count |-> JInt(5),
     summary_sentences_count |-> JInt(50),
     mistral_model |-> JStr("mistral-small-latest"),
     mistral_max_tokens |-> JInt(150)]

\* C27: load_config returns the documented defaults when the configuration
\* file is missing, unreadable or not valid JSON; whatever the file, it
\* returns a configuration with a value under every key (it never raises).
C27_DefaultsWhenNoUsableFile ==
    cfg.pc \in {"loaded", "served"} =>
        /\ cfg.file.state \in {"missing", "unreadable", "not_json"}
              => cfg.config = DocumentedDefaults
        /\ \A k \in ConfigKeys : cfg.config[k] # Missing

C27_Witness ==
    /\ cfg.pc = "loaded"
    /\ cfg.file.state = "unreadable"
    /\ cfg.config = DocumentedDefaults

\* A value of the type the key takes: a string for the model name, an
\* integer for the three counts.
ValidFor(k, v) ==
    IF k = "mistral_model" THEN v.t = "str" ELSE v.t = "int"

\* C28: for every key, a value that is missing from the file or invalid
\* (of the wrong type) is replaced by the key's default in the
\* configuration load_config returns, and valid values from the file are
\* kept.
C28_InvalidValuesFallBack ==
    (cfg.pc \in {"loaded", "served"} /\ cfg.file.kind = "object") =>
        \A k \in ConfigKeys :
            LET v == cfg.file.object[k]
            IN  IF v # Missing /\ ValidFor(k, v)
                THEN cfg.config[k] = v
                ELSE cfg.config[k] = DocumentedDefaults[k]

\* part occurs in whole, as it is and in one piece.
Embeds(whole, part) ==
    \E k \in 0..(Len(whole) - Len(part)) :
        SubSeq(whole, k + 1, k + Len(part)) = part

\* C29: the refinement request carries exactly the model name and the token
\* budget passed to process_query and a list of two messages, a system
\* message then a user message that embeds the query and the primary
\* summary verbatim; it is sent with the environment's key as bearer
\* credential.
C29_RequestContent ==
    post_count > 0 =>
        /\ DOMAIN request.json = {"model", "messages", "max_tokens"}
        /\ request.json.model = mistral_model_name
        /\ request.json.max_tokens = mistral_max_tokens
        /\ Len(request.json.messages) = 2
        /\ request.json.messages[1].role = "system"
        /\ request.json.messages[2].role = "user"
        /\ Embeds(request.json.messages[2].content, <<query>>)
        /\ Embeds(request.json.messages[2].content, first_summary.v)
        /\ request.headers.Authorization = <<"Bearer ">> \o mistral_api_key.v

C29_Witness ==
    /\ pc = "post"
    /\ post_count = 1
    /\ first_summary = Str(Join(<<TextA, TextB>>, <<" ">>))
    /\ request.json.model = "mistral-tiny"
    /\ request.json.max_tokens = 64
    /\ request.json.messages[2].content =
          <<"Initial Summary Text to Refine:\n---\n", "a", ".", " ", "b", ".",
            "\n---\n\nBased on the query \"", "q1",
            "\", provide the refined and comprehensive summary:">>
    /\ request.headers.Authorization = <<"Bearer ", "k">>

\* The corpus the texts handed back by the extractor during this query make.
CorpusOf(log) == Str(Join(SolidTexts(log), <<"\n", "\n">>))

\* The final summary that a primary summary, the key and the answer of the
\* refinement service give.
FinalOf(first, key, resp) ==
    IF ShouldRefine(first, key)
    THEN IF resp.status = "ok" /\ ParseCompletion(resp.body).r = "ok"
         THEN ParseCompletion(resp.body).v
         ELSE first
    ELSE Unrefined(first)

\* The results that the parameters, the key and what the search provider,
\* the extractor and the refinement service answered during this query
\* allow, one for each thing the LSA step can do on the corpus.
ResultsOf(prov, log, sentences, key, resp) ==
    IF search_urls(prov) = <<>> THEN {NoUrlsResult}
    ELSE IF ~Truthy(CorpusOf(log)) THEN {EmptyCorpusSummary}
    ELSE {FinalOf(summarize_text(CorpusOf(log), sentences, lsa), key, resp) :
             lsa \in LsaOutcomes(Len(Sentences(CorpusOf(log).v)))}

\* C30: a query's result depends only on its parameters and on what the
\* collaborators answered during that query: between two queries every
\* intermediate result is gone and no browser is left, and the value
\* returned is the one this query's answers give, whatever queries ran
\* before.
C30_NothingPersists ==
    /\ pc = "idle" => (FreshLocals /\ liveDrivers = 0)
    /\ Returned =>
          /\ result \in ResultsOf(provider, extract_log, summary_sentences,
                                   mistral_api_key, response)
          /\ Truthy(combined_text) =>
                result = FinalOf(first_summary, mistral_api_key, response)

C30_Witness ==
    /\ pc = "idle"
    /\ reply.status = "200"
    /\ reply.summary = Str(<<"r">>)
    /\ FreshLocals
    /\ liveDrivers = 0

\* The response is well formed and its completion is empty after trimming.
BlankCompletion ==
    /\ post_count > 0
    /\ response.status = "ok"
    /\ ExpectedShape(response.body)
    /\ strip(response.body.content.v) = <<>>

\* C31: when the remote response is well formed but its completion is empty
\* or only white space, the final summary is the primary summary and not the
\* empty string.
C31_BlankCompletionFallsBack ==
    (Returned /\ BlankCompletion) =>
        /\ result = first_summary
        /\ result # Str(<<>>)

\* The markup the last fetch of a URL came back with.
LastFetched(u) ==
    LET n == CHOOSE n \in DOMAIN fetch_log :
                 /\ fetch_log[n].url = u
                 /\ \A m \in DOMAIN fetch_log : fetch_log[m].url = u => m <= n
    IN  fetch_log[n].html

\* The URLs of the search result whose last fetch gave markup, each at its
\* first occurrence.
KeptUrls ==
    LET firsts == FirstOccurrences(urls)
    IN  SelectSeq2(firsts, [n \in DOMAIN firsts |-> Truthy(LastFetched(firsts[n]))])

\* C32: when a URL occurs more than once in the search result, it is fetched
\* for each occurrence, but only the markup of the last occurrence's fetch
\* is kept and extracted, and its text is once in the corpus, at the place of
\* the URL's first occurrence; a failed last fetch discards an earlier
\* successful fetch of the same URL.
C32_LastFetchKept ==
    /\ [n \in DOMAIN fetch_log |-> fetch_log[n].url] = SubSeq(urls, 1, Len(fetch_log))
    /\ FetchStageOver =>
          /\ Len(fetch_log) = Len(urls)
          /\ [n \in DOMAIN scraped_data |-> scraped_data[n].k] = FirstOccurrences(urls)
          /\ \A n \in DOMAIN scraped_data :
                scraped_data[n].v = LastFetched(scraped_data[n].k)
          /\ \A n \in DOMAIN extract_log :
                extract_log[n].html = LastFetched(extract_log[n].url)
    /\ CorpusBuilt =>
          /\ [n \in DOMAIN extract_log |-> extract_log[n].url] = KeptUrls
          /\ combined_text = Str(Join(SolidTexts(extract_log), ParagraphBreak))
          /\ \A n \in DOMAIN extracted_texts :
                LastFetched(extracted_texts[n].k) = None
                   => extracted_texts[n].v = None

C32_Witness ==
    /\ Returned
    /\ urls = <<"u1", "u2", "u1">>
    /\ [n \in DOMAIN fetch_log |-> fetch_log[n].html] = <<None, Str(<<"q">>), Str(<<"p">>)>>
    /\ [n \in DOMAIN extract_log |-> extract_log[n].url] = <<"u1", "u2">>
    /\ [n \in DOMAIN extract_log |-> extract_log[n].text] = <<Str(TextA), Str(TextB)>>
    /\ combined_text = Str(<<"a", ".", "\n", "\n", "b", ".">>)

\* The stages of a query that are plain calls: search, fetch (with or
\* without a browser open), extraction and primary summary.
BlockingStages == {"search", "fetch", "browser", "extract", "summarize"}

\* Task t is inside its blocking stages.
Blocking(t) == loop.tasks[t].pc \in BlockingStages

\* The tasks that hold a live browser.
BrowserHolders == {t \in TaskIds : loop.tasks[t].browser}

\* While a task is inside its blocking stages it has the loop, no other
\* task is inside its own, and one browser at most is live over all tasks.
OneAtATime ==
    /\ \A t \in TaskIds : Blocking(t) => loop.running = t
    /\ \A t, u \in TaskIds : (Blocking(t) /\ Blocking(u)) => t = u
    /\ Cardinality(BrowserHolders) <= 1

\* A step leaves alone every task other than one inside its blocking stages,
\* and the running task gives up the loop only at the request, at the body
\* of the response, at the final delay or at its end.
NoInterleaving ==
    /\ \A t \in TaskIds :
          Blocking(t) => \A u \in TaskIds \ {t} : loop'.tasks[u] = loop.tasks[u]
    /\ \A t \in TaskIds :
          (loop.running = t /\ loop'.running # t)
             => loop'.tasks[t].pc \in {"post", "json", "sleep", "done", "raised"}

\* C33: with several queries in flight on one event loop, the search, fetch,
\* extract and primary-summarize stages of a query run without yielding:
\* they never interleave with another query's stages and at most one browser
\* is live across all queries; queries interleave only at the refinement
\* request and at the final delay.
C33_StagesDoNotInterleave == []OneAtATime /\ [][NoInterleaving]_vars

C33_Witness ==
    /\ loop.tasks[1].pc = "post"
    /\ loop.tasks[2].pc = "browser"
    /\ loop.tasks[2].browser
    /\ loop.running = 2

\* C34: DEFAULT_CONFIG keeps its documented values forever: after any
\* sequence of load_config calls, succeeding or failing, and any change by
\* callers to the configuration objects load_config returned, DEFAULT_CONFIG
\* is unchanged and a failing load_config still returns the documented
\* defaults.
C34_DefaultsKeepTheirValues ==
    /\ DEFAULT_CONFIG = DocumentedDefaults
    /\ (cfg.pc = "loaded" /\ ReturnsTheDefaultsObject(cfg.file))
          => cfg.config = DocumentedDefaults

\* The refinement decision of the query has been taken.
RefinementDecided ==
    /\ pc \in {"post", "json", "sleep", "done"}
    /\ first_summary # Unbound

\* Refinement is attempted exactly when the credential read at import is set
\* (and the primary summary is not empty), and the request carries that
\* credential, whatever the environment holds by then.
FollowsImportedKey ==
    /\ RefinementDecided =>
          (post_count > 0 <=> (Truthy(first_summary) /\ Truthy(mistral_api_key)))
    /\ post_count > 0 =>
          request.headers.Authorization = <<"Bearer ">> \o mistral_api_key.v

\* C35: whether refinement is attempted is fixed when the module is loaded:
\* the credential is read once from the environment at import, every query
\* of the process sees the same credential, and a change of the environment
\* between queries changes neither whether nor how refinement is attempted.
C35_CredentialFixedAtImport ==
    []FollowsImportedKey /\ [][mistral_api_key' = mistral_api_key]_vars

C35_Witness ==
    /\ Returned
    /\ mistral_api_key = Str(<<"k">>)
    /\ environ = None
    /\ post_count = 1
    /\ request.headers.Authorization = <<"Bearer ", "k">>
    /\ reply = NoReply

=============================================================================
